---- MODULE Spec2Model ----
(***************************************************************************)
(* Model of ui/component/or-rules/src/index.ts:                            *)
(*   - getAssetInfos, the layered configuration resolver, together with    *)
(*     the asset model catalog it reads and writes;                        *)
(*   - OrRules, the selection / edit guard between rule list and viewer.   *)
(* Objects that the code shares by reference (attribute descriptors,       *)
(* rulesets) live in heaps indexed by reference, so that a write through   *)
(* one reference is seen through every other.                              *)
(***************************************************************************)
EXTENDS Integers, Sequences, FiniteSets, Bags, TLC

VARIABLES
    \* ---- asset model catalog (AssetModelUtil) and the resolver's last call
    assetInfos,         \* the catalog's AssetTypeInfo objects, in catalog order
    attrHeap,           \* attribute descriptor objects, by reference
    config,             \* the RulesConfig the host supplies (optional)
    callConfig,         \* config argument of the last getAssetInfos call
    side,               \* side of the last call: "none", "when" or "action"
    allowedAssetTypes,  \* local of the last call (line 221)
    excludedAssetTypes, \* local of the last call (line 222)
    result,             \* array the last call resolved to (holds references)
    returned,           \* deep value of that array at the moment it was returned
    \* ---- OrRules, its viewer and the events in flight
    modified,           \* this._viewer.modified
    viewerRuleset,      \* this._viewer.ruleset: a reference into rulesets (optional)
    selectedIds,        \* this.selectedIds (optional)
    rulesets,           \* ruleset objects, by reference
    prompts,            \* open ok/cancel dialogs: a bag of the events their callbacks captured
    saves,              \* _onRuleSave calls waiting for this._rulesList.refresh()
    last                \* what the last handler run did

resolverVars == <<assetInfos, attrHeap, config, callConfig, side,
                  allowedAssetTypes, excludedAssetTypes, result, returned>>

guardVars == <<modified, viewerRuleset, selectedIds, rulesets, prompts, saves, last>>

vars == <<resolverVars, guardVars>>

----
\* Optional values: undefined is None, a defined value v is Some(v).
None == <<>>
Some(v) == <<v>>
IsDef(o) == o # <<>>
Val(o) == o[1]
\* undefined for string-like fields (icon, color, type, format, units)
UNDEF == "undefined"

Range(s) == {s[i] : i \in 1..Len(s)}

\* Longest constraints list an attribute descriptor may reach in the model.
MaxConstraints == 3

----
\* The asset model catalog.
UNKNOWNASSET == "UnknownAsset"
AttrRefs == 1..3
AssetKeys == {"A", "B", UNKNOWNASSET, "*"}
AttrNames == {"x", "y"}

InitAssetInfos ==
    << [assetDescriptor |-> [name |-> "A", icon |-> "iA", colour |-> "kA"],
        attributeDescriptors |-> <<1, 2>>],
       [assetDescriptor |-> [name |-> "B", icon |-> "iB", colour |-> "kB"],
        attributeDescriptors |-> <<3>>],
       [assetDescriptor |-> [name |-> UNKNOWNASSET, icon |-> "iU", colour |-> "kU"],
        attributeDescriptors |-> <<>>] >>

InitAttrHeap ==
    (1 :> [name |-> "x", type |-> "T1", format |-> "F1", units |-> UNDEF,
           constraints |-> Some(<<"c1">>)])
    @@ (2 :> [name |-> "y", type |-> "T1", format |-> UNDEF, units |-> "U1",
              constraints |-> None])
    @@ (3 :> [name |-> "x", type |-> "T3", format |-> UNDEF, units |-> UNDEF,
              constraints |-> Some(<<>>)])

\* AssetModelUtil.getAssetDescriptors()
getAssetDescriptors ==
    [i \in 1..Len(assetInfos) |-> assetInfos[i].assetDescriptor]

\* AssetModelUtil.getAssetTypeInfo(ad): the catalog's own object for ad
getAssetTypeInfo(ad) ==
    LET i == CHOOSE j \in 1..Len(assetInfos) : assetInfos[j].assetDescriptor.name = ad.name
    IN  assetInfos[i]

\* Util.stringMatch(needle, haystack): exact, or the wildcard "*"
stringMatch(needle, haystack) == needle = haystack \/ needle = "*"

----
\* RulesConfig inputs.  A RulesConfigAttribute carries the AttributeDescriptor
\* fields the resolver reads; format and units are opaque values.
NoOverride == [type |-> UNDEF, format |-> UNDEF, units |-> UNDEF, constraints |-> None]
TypeOverride == [NoOverride EXCEPT !.type = "T2"]
ConstraintsOverride ==
    [NoOverride EXCEPT !.format = "F2", !.units = "U2", !.constraints = Some(<<"c2">>)]
EmptyConstraintsOverride == [NoOverride EXCEPT !.constraints = Some(<<>>)]

\* {[attributeName: string]: RulesConfigAttribute}: absent keys map to None
NoAttrs == [n \in AttrNames |-> None]
AttrDicts ==
    { [NoAttrs EXCEPT !["x"] = Some(ConstraintsOverride)],
      [NoAttrs EXCEPT !["x"] = Some(TypeOverride),
                      !["y"] = Some([NoOverride EXCEPT !.constraints = Some(<<"c3">>)])] }

\* RulesConfigAsset
NoAssetCfg == [includeAttributes |-> None, excludeAttributes |-> None,
               icon |-> UNDEF, color |-> UNDEF, attributeDescriptors |-> None]
IconCfg == [NoAssetCfg EXCEPT !.icon = "i2"]
ColourCfg ==
    [NoAssetCfg EXCEPT !.color = "k2",
        !.attributeDescriptors = Some([NoAttrs EXCEPT !["x"] =
            Some([NoOverride EXCEPT !.type = "T4", !.constraints = Some(<<"c4">>)])])]
IncludeCfg ==
    [NoAssetCfg EXCEPT !.includeAttributes = Some(<<"x">>),
        !.attributeDescriptors = Some(NoAttrs)]
ExcludeCfg ==
    [NoAssetCfg EXCEPT !.excludeAttributes = Some(<<"x">>), !.icon = "i3",
        !.attributeDescriptors = Some([NoAttrs EXCEPT !["y"] = Some(EmptyConstraintsOverride)])]
WildcardCfg ==
    [NoAssetCfg EXCEPT !.includeAttributes = Some(<<"*">>),
        !.excludeAttributes = Some(<<"y">>)]
EmptyIncludeCfg == [NoAssetCfg EXCEPT !.includeAttributes = Some(<<>>)]

\* {[assetType: string]: RulesConfigAsset}: absent keys map to None
NoAssets == [k \in AssetKeys |-> None]
AssetDicts ==
    { [NoAssets EXCEPT !["A"] = Some(IconCfg)],
      [NoAssets EXCEPT !["A"] = Some(ColourCfg)],
      [NoAssets EXCEPT !["*"] = Some(IncludeCfg)],
      [NoAssets EXCEPT !["*"] = Some(ExcludeCfg)],
      [NoAssets EXCEPT !["A"] = Some(WildcardCfg)],
      [NoAssets EXCEPT !["A"] = Some(EmptyIncludeCfg)],
      [NoAssets EXCEPT !["B"] = Some(IconCfg), !["*"] = Some(ColourCfg)] }

\* RulesDescriptorSection
NoSection == [includeAssets |-> None, excludeAssets |-> None,
              attributeDescriptors |-> None, assets |-> None]
IncludeOpts == { None, Some(<<>>), Some(<<"A">>), Some(<<"B", UNKNOWNASSET>>) }
ExcludeOpts == { None, Some(<<"A">>), Some(<<"B">>) }
FilterSections ==
    { None } \cup { Some([NoSection EXCEPT !.includeAssets = i, !.excludeAssets = e]) :
                        i \in IncludeOpts, e \in ExcludeOpts }
OverrideSections ==
    { None } \cup { Some([NoSection EXCEPT !.assets = Some(d), !.attributeDescriptors = a]) :
                        d \in AssetDicts, a \in {None} \cup {Some(x) : x \in AttrDicts} }
OtherSideSections ==
    { None,
      Some([NoSection EXCEPT !.includeAssets = Some(<<"B">>)]),
      Some([NoSection EXCEPT !.excludeAssets = Some(<<"A">>),
                             !.assets = Some([NoAssets EXCEPT !["*"] = Some(ColourCfg)])]) }
MixedSections ==
    { Some([NoSection EXCEPT !.includeAssets = Some(<<"A", "B">>),
                             !.assets = Some([NoAssets EXCEPT !["*"] = Some(ColourCfg)])]),
      Some([NoSection EXCEPT !.excludeAssets = Some(<<UNKNOWNASSET>>),
                             !.attributeDescriptors = Some([NoAttrs EXCEPT !["x"] = Some(ConstraintsOverride)]),
                             !.assets = Some([NoAssets EXCEPT !["A"] = Some(IncludeCfg)])]) }

Descriptors(a, w, c) == Some([descriptors |-> Some([all |-> a, when |-> w, action |-> c])])

\* The configurations the host may supply.
Configs ==
    { None, Some([descriptors |-> None]) }
    \cup { Descriptors(a, w, c) : a \in FilterSections, w \in FilterSections,
                                   c \in OtherSideSections }
    \cup { Descriptors(a, w, c) : a \in OverrideSections, w \in OverrideSections,
                                   c \in OtherSideSections }
    \cup { Descriptors(a, w, c) : a \in FilterSections, w \in MixedSections,
                                   c \in OtherSideSections }

----
\* The resolver, index.ts lines 172-320.

HasDescriptors(c) == IsDef(c) /\ IsDef(Val(c).descriptors)
\* SectionOf reading the action section for either side.
SectionOf_Action(c, useActionConfig) == Val(Val(c).descriptors).action

SectionOf(c, useActionConfig) ==
    IF useActionConfig THEN Val(Val(c).descriptors).action ELSE Val(Val(c).descriptors).when
AllSectionOf(c) == Val(Val(c).descriptors).all

\* assets[assetType] ? assets[assetType] : assets["*"], or undefined (lines 180, 185)
AssetEntry(sec, assetType) ==
    IF IsDef(sec) /\ IsDef(Val(sec).assets)
    THEN IF IsDef(Val(Val(sec).assets)[assetType])
         THEN Val(Val(sec).assets)[assetType]
         ELSE Val(Val(sec).assets)["*"]
    ELSE None

\* getAssetDescriptorFromSection with the two lookups in the other order: the
\* all section is asked before the side's section.
getAssetDescriptorFromSection_AllFirst(assetType, c, useActionConfig) ==
    IF ~HasDescriptors(c) THEN None
    ELSE LET descriptor == AssetEntry(AllSectionOf(c), assetType)
         IN  IF IsDef(descriptor) THEN descriptor
             ELSE AssetEntry(SectionOf(c, useActionConfig), assetType)

getAssetDescriptorFromSection(assetType, c, useActionConfig) ==
    IF ~HasDescriptors(c) THEN None
    ELSE LET descriptor == AssetEntry(SectionOf(c, useActionConfig), assetType)
         IN  IF IsDef(descriptor) THEN descriptor
             ELSE AssetEntry(AllSectionOf(c), assetType)

\* getAssetTypes(): names of the asset model's type infos but the unknown asset
getAssetTypes ==
    LET kept == SelectSeq(assetInfos, LAMBDA ati : ati.assetDescriptor.name # UNKNOWNASSET)
    IN  [i \in 1..Len(kept) |-> kept[i].assetDescriptor.name]

\* AllowedAssetTypes with the two assignments of lines 232-238 in the other
\* order: the side's list wins.
AllowedAssetTypes_SideWins(c, useActionConfig) ==
    LET section == SectionOf(c, useActionConfig)
        all == AllSectionOf(c)
        sectionHas == IsDef(section) /\ IsDef(Val(section).includeAssets)
        allHas == IsDef(all) /\ IsDef(Val(all).includeAssets)
    IN  IF sectionHas \/ allHas
        THEN IF sectionHas THEN Val(Val(section).includeAssets)
             ELSE Val(Val(all).includeAssets)
        ELSE getAssetTypes

\* lines 221, 229-239; only read when the config has descriptors
AllowedAssetTypes(c, useActionConfig) ==
    LET section == SectionOf(c, useActionConfig)
        all == AllSectionOf(c)
        sectionHas == IsDef(section) /\ IsDef(Val(section).includeAssets)
        allHas == IsDef(all) /\ IsDef(Val(all).includeAssets)
    IN  IF sectionHas \/ allHas
        THEN IF allHas THEN Val(Val(all).includeAssets)
             ELSE Val(Val(section).includeAssets)
        ELSE getAssetTypes

\* ExcludedAssetTypes with line 245 an assignment like line 242: the side's
\* list is kept only when the all section gives none.
ExcludedAssetTypes_Overwrite(c, useActionConfig) ==
    LET section == SectionOf(c, useActionConfig)
        all == AllSectionOf(c)
    IN  IF IsDef(all) /\ IsDef(Val(all).excludeAssets)
        THEN Val(Val(all).excludeAssets)
        ELSE IF IsDef(section) /\ IsDef(Val(section).excludeAssets)
             THEN Val(Val(section).excludeAssets) ELSE <<>>

\* lines 222, 241-246
ExcludedAssetTypes(c, useActionConfig) ==
    LET section == SectionOf(c, useActionConfig)
        all == AllSectionOf(c)
        fromSection == IF IsDef(section) /\ IsDef(Val(section).excludeAssets)
                       THEN Val(Val(section).excludeAssets) ELSE <<>>
    IN  IF IsDef(all) /\ IsDef(Val(all).excludeAssets)
        THEN fromSection \o Val(Val(all).excludeAssets)
        ELSE fromSection

\* FilterDescriptors without the length test of line 249: an empty allow-list
\* lets nothing through.
FilterDescriptors_EmptyAllowsNone(ads, allowed, excluded) ==
    SelectSeq(ads, LAMBDA ad :
        /\ ad.name \in Range(allowed)
        /\ ad.name \notin Range(excluded))

\* the filter of lines 248-253
FilterDescriptors(ads, allowed, excluded) ==
    SelectSeq(ads, LAMBDA ad :
        /\ ~(Len(allowed) > 0 /\ ad.name \notin Range(allowed))
        /\ ad.name \notin Range(excluded))

\* lines 271-276 on the copy {...typeInfo.assetDescriptor}
OverrideAssetDescriptor(ad, cd) ==
    [ad EXCEPT !.icon = IF cd.icon # UNDEF THEN cd.icon ELSE @,
               !.colour = IF cd.color # UNDEF THEN cd.color ELSE @]

\* FilterAttributes reading an empty includeAttributes as one that is not given.
FilterAttributes_EmptyIncludeIgnored(refs, cd, heap) ==
    LET hasInclude == IsDef(cd.includeAttributes) /\ Len(Val(cd.includeAttributes)) > 0
    IN  IF hasInclude \/ IsDef(cd.excludeAttributes)
        THEN SelectSeq(refs, LAMBDA r :
                /\ (~hasInclude
                    \/ \E i \in 1..Len(Val(cd.includeAttributes)) :
                           stringMatch(Val(cd.includeAttributes)[i], heap[r].name))
                /\ (~IsDef(cd.excludeAttributes)
                    \/ ~\E i \in 1..Len(Val(cd.excludeAttributes)) :
                           stringMatch(Val(cd.excludeAttributes)[i], heap[r].name)))
        ELSE refs

\* lines 280-287 on the copy [...typeInfo.attributeDescriptors] (a list of references)
FilterAttributes(refs, cd, heap) ==
    IF IsDef(cd.includeAttributes) \/ IsDef(cd.excludeAttributes)
    THEN SelectSeq(refs, LAMBDA r :
            /\ (~IsDef(cd.includeAttributes)
                \/ \E i \in 1..Len(Val(cd.includeAttributes)) :
                       stringMatch(Val(cd.includeAttributes)[i], heap[r].name))
            /\ (~IsDef(cd.excludeAttributes)
                \/ ~\E i \in 1..Len(Val(cd.excludeAttributes)) :
                       stringMatch(Val(cd.excludeAttributes)[i], heap[r].name)))
    ELSE refs

\* lines 292-298: the RulesConfigAttribute for an attribute name
ConfigAttributeDescriptor(name, cd, c, useActionConfig) ==
    LET own == Val(cd.attributeDescriptors)[name]
        section == SectionOf(c, useActionConfig)
        all == AllSectionOf(c)
        fromSection == IF IsDef(section) /\ IsDef(Val(section).attributeDescriptors)
                       THEN Val(Val(section).attributeDescriptors)[name] ELSE None
        fromAll == IF IsDef(all) /\ IsDef(Val(all).attributeDescriptors)
                   THEN Val(Val(all).attributeDescriptors)[name] ELSE None
    IN  IF IsDef(own) THEN own
        ELSE IF IsDef(fromSection) THEN fromSection
        ELSE fromAll

\* PrependConstraints with the two spreads of line 310 swapped.
PrependConstraints_Append(own, override) ==
    IF IsDef(own) THEN Some(Val(own) \o Val(override)) ELSE override

\* line 310
PrependConstraints(own, override) ==
    IF IsDef(own) THEN Some(Val(override) \o Val(own)) ELSE override

\* lines 299-312: the writes to the attribute descriptor object
ApplyAttributeOverride(attr, cad) ==
    [attr EXCEPT !.type = IF cad.type # UNDEF THEN cad.type ELSE @,
                 !.format = IF cad.format # UNDEF THEN cad.format ELSE @,
                 !.units = IF cad.units # UNDEF THEN cad.units ELSE @,
                 !.constraints = IF IsDef(cad.constraints)
                                 THEN PrependConstraints(@, cad.constraints) ELSE @]

\* The attribute descriptor objects lines 290-313 write for one surviving asset
\* type: the references left in the copied list, when the override has its own
\* attributeDescriptors dictionary.
WrittenRefs(ti, c, useActionConfig, heap) ==
    LET cd == getAssetDescriptorFromSection(ti.assetDescriptor.name, c, useActionConfig)
    IN  IF IsDef(cd) /\ IsDef(Val(cd).attributeDescriptors)
        THEN Range(FilterAttributes(ti.attributeDescriptors, Val(cd), heap))
        ELSE {}

\* The surviving type infos of a call, in catalog order (lines 248-256).
Surviving(c, useActionConfig) ==
    LET kept == FilterDescriptors(getAssetDescriptors,
                                  AllowedAssetTypes(c, useActionConfig),
                                  ExcludedAssetTypes(c, useActionConfig))
    IN  [i \in 1..Len(kept) |-> getAssetTypeInfo(kept[i])]

\* The attribute heap after a call.  Every attribute descriptor object belongs
\* to one type info, so each object is written at most once per call.
HeapAfter(c, useActionConfig, heap) ==
    IF ~HasDescriptors(c) THEN heap
    ELSE LET tis == Surviving(c, useActionConfig)
         IN  [r \in DOMAIN heap |->
                IF \E i \in 1..Len(tis) : r \in WrittenRefs(tis[i], c, useActionConfig, heap)
                THEN LET i == CHOOSE j \in 1..Len(tis) :
                                  r \in WrittenRefs(tis[j], c, useActionConfig, heap)
                         cd == Val(getAssetDescriptorFromSection(
                                      tis[i].assetDescriptor.name, c, useActionConfig))
                         cad == ConfigAttributeDescriptor(heap[r].name, cd, c, useActionConfig)
                     IN  IF IsDef(cad) THEN ApplyAttributeOverride(heap[r], Val(cad))
                         ELSE heap[r]
                ELSE heap[r]]

\* One element of the resolved array (lines 256-316): the catalog's own type
\* info (own = TRUE) or a modifiedTypeInfo holding a copied asset descriptor and
\* a copied list of the catalog's attribute descriptor references.
ResolveTypeInfo(ti, c, useActionConfig, heap) ==
    LET cd == getAssetDescriptorFromSection(ti.assetDescriptor.name, c, useActionConfig)
    IN  IF ~IsDef(cd)
        THEN [own |-> TRUE, assetDescriptor |-> ti.assetDescriptor,
              attributeDescriptors |-> ti.attributeDescriptors]
        ELSE [own |-> FALSE,
              assetDescriptor |-> OverrideAssetDescriptor(ti.assetDescriptor, Val(cd)),
              attributeDescriptors |-> FilterAttributes(ti.attributeDescriptors, Val(cd), heap)]

\* getAssetInfos without the early return of lines 223-225: an absent config
\* is filtered by the default allow-list like a config with empty sections.
getAssetInfos_NoEarlyReturn(c, useActionConfig, heap) ==
    IF ~HasDescriptors(c)
    THEN LET kept == FilterDescriptors(getAssetDescriptors, getAssetTypes, <<>>)
         IN  [i \in 1..Len(kept) |->
                [own |-> TRUE, assetDescriptor |-> getAssetTypeInfo(kept[i]).assetDescriptor,
                 attributeDescriptors |-> getAssetTypeInfo(kept[i]).attributeDescriptors]]
    ELSE LET tis == Surviving(c, useActionConfig)
         IN  [i \in 1..Len(tis) |-> ResolveTypeInfo(tis[i], c, useActionConfig, heap)]

\* getAssetInfos(config, useActionConfig): the array the promise resolves to
getAssetInfos(c, useActionConfig, heap) ==
    IF ~HasDescriptors(c)
    THEN [i \in 1..Len(assetInfos) |->
            [own |-> TRUE, assetDescriptor |-> getAssetTypeInfo(getAssetDescriptors[i]).assetDescriptor,
             attributeDescriptors |-> getAssetTypeInfo(getAssetDescriptors[i]).attributeDescriptors]]
    ELSE LET tis == Surviving(c, useActionConfig)
         IN  [i \in 1..Len(tis) |-> ResolveTypeInfo(tis[i], c, useActionConfig, heap)]

\* The deep value of a resolved array under a heap: what a reader of it sees.
DeepValue(res, heap) ==
    [i \in 1..Len(res) |->
        [assetDescriptor |-> res[i].assetDescriptor,
         attributeDescriptors |->
            [k \in 1..Len(res[i].attributeDescriptors) |-> heap[res[i].attributeDescriptors[k]]]]]

SideName(useActionConfig) == IF useActionConfig THEN "action" ELSE "when"

WithinBounds(heap) ==
    \A r \in DOMAIN heap :
        IsDef(heap[r].constraints) => Len(Val(heap[r].constraints)) <= MaxConstraints

\* A call getAssetInfos(c, useActionConfig), up to the resolution of its promise.
Call(c, useActionConfig) ==
    LET heap2 == HeapAfter(c, useActionConfig, attrHeap)
        res == getAssetInfos(c, useActionConfig, attrHeap)
    IN  /\ WithinBounds(heap2)
        /\ attrHeap' = heap2
        /\ callConfig' = c
        /\ side' = SideName(useActionConfig)
        /\ allowedAssetTypes' = IF HasDescriptors(c) THEN AllowedAssetTypes(c, useActionConfig)
                                ELSE getAssetTypes
        /\ excludedAssetTypes' = IF HasDescriptors(c) THEN ExcludedAssetTypes(c, useActionConfig)
                                 ELSE <<>>
        /\ result' = res
        /\ returned' = DeepValue(res, heap2)
        /\ UNCHANGED <<assetInfos, config>>
        /\ UNCHANGED guardVars

\* The host resolves with the configuration it was given.
Resolve(useActionConfig) == Call(config, useActionConfig)

\* The host resolves before its configuration is set: getAssetInfos(undefined, side).
ResolveDefault(useActionConfig) == config # None /\ Call(None, useActionConfig)

----
\* The selection / edit guard, index.ts lines 573-645, with the rule list and
\* the rule viewer it sits between.

\* Open dialogs and pending refreshes the model follows at a time.
MaxPrompts == 2
MaxSaves == 1

\* The rule list's nodes: node n holds the ruleset object at reference n, whose
\* id is n.  Every other ruleset object is held by the viewer alone, so the
\* references not in use by a node or the viewer are free for a new object.
Nodes == {1, 2}
ViewerRefs == {Cardinality(Nodes) + 1, Cardinality(Nodes) + 2}
InitRulesets == [n \in Nodes |-> [id |-> Some(n), rules |-> "saved"]]

\* The node arrays an event may carry, nodes in list order (multiSelect allows
\* more than one node).
NodeSeqs ==
    {<<>>} \cup {<<n>> : n \in Nodes} \cup {<<n, m>> : <<n, m>> \in {p \in Nodes \X Nodes : p[1] < p[2]}}

\* A reference no live object has.
FreshRef == CHOOSE r \in ViewerRefs : viewerRuleset # Some(r)

\* The heap with the objects nothing refers to any more dropped.
Collect(heap, viewer) ==
    [r \in Nodes \cup (IF IsDef(viewer) THEN {Val(viewer)} ELSE {}) |-> heap[r]]

\* Util.objectsEqual on two RulesetNode arrays: deep equality
objectsEqual(a, b) ==
    /\ Len(a) = Len(b)
    /\ \A i \in 1..Len(a) : rulesets[a[i]] = rulesets[b[i]]

\* NodeIds with the ids in the opposite order.
NodeIds_Reversed(nodes) ==
    [i \in 1..Len(nodes) |-> Val(rulesets[nodes[Len(nodes) + 1 - i]].id)]

\* nodes.map((node) => node.ruleset.id!)
NodeIds(nodes) == [i \in 1..Len(nodes) |-> Val(rulesets[nodes[i]].id)]

\* The list's selected nodes, which it keeps to the selectedIds it is given:
\* the oldNodes of its next request.
SelectedNodes ==
    IF IsDef(selectedIds)
    THEN CHOOSE s \in NodeSeqs : Range(s) = Nodes \cap Range(Val(selectedIds))
    ELSE <<>>

Did(op) == [op |-> op, new |-> <<>>, allow |-> TRUE, prompted |-> FALSE,
            reload |-> FALSE, threw |-> FALSE, overwrote |-> FALSE]

\* Allowed with the test of line 610 inverted.
Allowed_Inverted == modified

\* _onRuleSelectionRequested up to its return (lines 607-615): whether the
\* request is still allowed, read from this._viewer.modified
Allowed == ~modified

\* _onRuleSelectionChanged (lines 629-633)
onRuleSelectionChanged(nodes) ==
    /\ selectedIds' = Some(NodeIds(nodes))
    /\ IF Len(nodes) = 1
       THEN /\ viewerRuleset' = Some(FreshRef)
            /\ rulesets' = Collect((FreshRef :> rulesets[nodes[1]]) @@ rulesets, Some(FreshRef))
       ELSE /\ viewerRuleset' = None
            /\ rulesets' = Collect(rulesets, None)

\* onRuleSelectionRequested without the call of _confirmContinue: the request
\* is vetoed and no dialog opens.
onRuleSelectionRequested_NoPrompt(old, new) ==
    /\ BagCardinality(prompts) < MaxPrompts
    /\ last' = [Did("request") EXCEPT !.new = new, !.allow = FALSE]
    /\ UNCHANGED <<modified, viewerRuleset, selectedIds, rulesets, prompts, saves>>

\* The vetoing branch of _onRuleSelectionRequested (lines 615-617) with
\* _confirmContinue opening the dialog (lines 595-597): nothing but the event's
\* allow flag and the open dialogs changes.
onRuleSelectionRequested(old, new) ==
    /\ BagCardinality(prompts) < MaxPrompts
    /\ prompts' = prompts (+) SetToBag({[old |-> old, new |-> new]})
    /\ last' = [Did("request") EXCEPT !.new = new, !.allow = FALSE, !.prompted = TRUE]
    /\ UNCHANGED <<modified, viewerRuleset, selectedIds, rulesets, saves>>

\* The list dispatches or-rules-request-selection with its selected nodes as
\* oldNodes.  A request still allowed when the dispatch returns is carried out
\* by the list, which dispatches or-rules-selection at once.
RequestSelection(new) ==
    IF Allowed
    THEN /\ onRuleSelectionChanged(new)
         /\ last' = [Did("request") EXCEPT !.new = new]
         /\ UNCHANGED <<modified, prompts, saves>>
    ELSE onRuleSelectionRequested(SelectedNodes, new)

Remove(seq, i) == SubSeq(seq, 1, i - 1) \o SubSeq(seq, i + 1, Len(seq))

\* Reload with the spread of line 621 left out: the viewer is given the node's
\* own ruleset object.
Reload_NoCopy(node) ==
    /\ viewerRuleset' = Some(node)
    /\ rulesets' = Collect(rulesets, Some(node))

\* line 621: this._viewer.ruleset = {...nodes[0].ruleset}
Reload(node) ==
    /\ viewerRuleset' = Some(FreshRef)
    /\ rulesets' = Collect((FreshRef :> rulesets[node]) @@ rulesets, Some(FreshRef))

\* The callback given to _confirmContinue (lines 617-626), run for the event
\* of dialog p.  nodes[0].ruleset of an empty array throws and the callback
\* ends there.
Callback(p, op) ==
    LET nodes == p.new
    IN  IF objectsEqual(nodes, p.old)
        THEN IF Len(nodes) = 0
             THEN /\ last' = [Did(op) EXCEPT !.new = nodes, !.reload = TRUE, !.threw = TRUE]
                  /\ UNCHANGED <<viewerRuleset, selectedIds, rulesets>>
             ELSE /\ Reload(nodes[1])
                  /\ last' = [Did(op) EXCEPT !.new = nodes, !.reload = TRUE]
                  /\ UNCHANGED selectedIds
        ELSE /\ selectedIds' = Some(NodeIds(nodes))
             /\ viewerRuleset' = IF Len(nodes) = 1 THEN Some(nodes[1]) ELSE None
             /\ rulesets' = Collect(rulesets, viewerRuleset')
             /\ last' = [Did(op) EXCEPT !.new = nodes]

\* The user answers a dialog opened for event p with ok (lines 597-600).
Confirm(p) ==
    /\ prompts' = prompts (-) SetToBag({p})
    /\ Callback(p, "confirm")
    /\ UNCHANGED <<modified, saves>>

\* Cancel with the test of line 598 left out: the callback runs whatever the answer.
Cancel_RunsCallback(p) ==
    /\ prompts' = prompts (-) SetToBag({p})
    /\ Callback(p, "cancel")
    /\ UNCHANGED <<modified, saves>>

\* The user answers a dialog opened for event p with cancel, or closes it: ok
\* is false (line 598).
Cancel(p) ==
    /\ prompts' = prompts (-) SetToBag({p})
    /\ last' = [Did("cancel") EXCEPT !.new = p.new]
    /\ UNCHANGED <<modified, viewerRuleset, selectedIds, rulesets, saves>>

\* The list dispatches or-rules-selection on its own.
SelectionChanged(new) ==
    /\ onRuleSelectionChanged(new)
    /\ last' = [Did("selection") EXCEPT !.new = new]
    /\ UNCHANGED <<modified, prompts, saves>>

\* Add behind the test of the viewer's modified flag: a modified viewer keeps
\* its ruleset.
Add_Guarded ==
    /\ IF modified
       THEN UNCHANGED <<viewerRuleset, rulesets>>
       ELSE /\ viewerRuleset' = Some(FreshRef)
            /\ rulesets' = Collect((FreshRef :> [id |-> None, rules |-> "new"]) @@ rulesets,
                                   Some(FreshRef))
    /\ last' = Did("add")
    /\ UNCHANGED <<modified, selectedIds, prompts, saves>>

\* _onRuleAdd (lines 635-638): the event carries a ruleset the list has just made.
Add ==
    /\ viewerRuleset' = Some(FreshRef)
    /\ rulesets' = Collect((FreshRef :> [id |-> None, rules |-> "new"]) @@ rulesets,
                           Some(FreshRef))
    /\ last' = Did("add")
    /\ UNCHANGED <<modified, selectedIds, prompts, saves>>

\* Save without the await of line 641: selectedIds is written while the
\* refresh is still running, and nothing is left to write when it is done.
Save_WritesAtOnce(success, isNew, id) ==
    /\ Len(saves) < MaxSaves
    /\ saves' = Append(saves, [success |-> FALSE, isNew |-> isNew, id |-> id,
                               selected |-> selectedIds])
    /\ selectedIds' = IF success /\ isNew THEN Some(<<id>>) ELSE selectedIds
    /\ last' = Did("save")
    /\ UNCHANGED <<modified, viewerRuleset, rulesets, prompts>>

\* _onRuleSave up to its await (lines 640-641).  The pending call keeps its
\* event; selected notes selectedIds as the call found it.
Save(success, isNew, id) ==
    /\ Len(saves) < MaxSaves
    /\ saves' = Append(saves, [success |-> success, isNew |-> isNew, id |-> id,
                               selected |-> selectedIds])
    /\ last' = Did("save")
    /\ UNCHANGED <<modified, viewerRuleset, selectedIds, rulesets, prompts>>

\* Refreshed with the test of line 642 reduced to event.detail.success.
Refreshed_IgnoresIsNew(i) ==
    /\ saves' = Remove(saves, i)
    /\ selectedIds' = IF saves[i].success THEN Some(<<saves[i].id>>) ELSE selectedIds
    /\ last' = Did("refreshed")
    /\ UNCHANGED <<modified, viewerRuleset, rulesets, prompts>>

\* The refresh of pending save i is done: lines 642-644 run.
Refreshed(i) ==
    /\ saves' = Remove(saves, i)
    /\ selectedIds' = IF saves[i].success /\ saves[i].isNew
                      THEN Some(<<saves[i].id>>) ELSE selectedIds
    /\ last' = [Did("refreshed") EXCEPT
                    !.overwrote = /\ saves[i].success /\ saves[i].isNew
                                  /\ selectedIds # saves[i].selected]
    /\ UNCHANGED <<modified, viewerRuleset, rulesets, prompts>>

\* The user edits the rule in the viewer: the viewer writes the ruleset it
\* holds and raises its modified flag.
ViewerEdit ==
    /\ IsDef(viewerRuleset)
    /\ modified' = TRUE
    /\ rulesets' = [rulesets EXCEPT ![Val(viewerRuleset)].rules = "edited"]
    /\ last' = Did("edit")
    /\ UNCHANGED <<viewerRuleset, selectedIds, prompts, saves>>

\* The viewer lowers its modified flag (the rule was saved or loaded anew).
ViewerClean ==
    /\ modified
    /\ modified' = FALSE
    /\ last' = Did("clean")
    /\ UNCHANGED <<viewerRuleset, selectedIds, rulesets, prompts, saves>>

InitGuard ==
    /\ modified = FALSE
    /\ viewerRuleset = None
    /\ selectedIds = None
    /\ rulesets = InitRulesets
    /\ prompts = EmptyBag
    /\ saves = <<>>
    /\ last = Did("init")

InitCatalog ==
    /\ assetInfos = InitAssetInfos
    /\ attrHeap = InitAttrHeap
    /\ callConfig = None
    /\ side = "none"
    /\ allowedAssetTypes = <<>>
    /\ excludedAssetTypes = <<>>
    /\ result = <<>>
    /\ returned = <<>>

----
\* The resolver on its own: the host's configuration is any of Configs.
Init == InitCatalog /\ config \in Configs /\ InitGuard

Next ==
    \/ \E useActionConfig \in BOOLEAN : Resolve(useActionConfig)
    \/ \E useActionConfig \in BOOLEAN : ResolveDefault(useActionConfig)

Spec == Init /\ [][Next]_vars

\* The guard on its own: selection, add and viewer events arrive in any order.
GuardInit == InitCatalog /\ config = None /\ InitGuard

GuardNext ==
    \/ \E new \in NodeSeqs : RequestSelection(new) /\ UNCHANGED resolverVars
    \/ \E p \in BagToSet(prompts) : Confirm(p) /\ UNCHANGED resolverVars
    \/ \E p \in BagToSet(prompts) : Cancel(p) /\ UNCHANGED resolverVars
    \/ Add /\ UNCHANGED resolverVars
    \/ \E new \in NodeSeqs : SelectionChanged(new) /\ UNCHANGED resolverVars
    \/ ViewerEdit /\ UNCHANGED resolverVars
    \/ ViewerClean /\ UNCHANGED resolverVars

GuardSpec == GuardInit /\ [][GuardNext]_vars

\* Requests racing each other: nothing but selection requests, the answers to
\* their dialogs and the user's edits.
OverlapNext ==
    \/ \E new \in NodeSeqs : RequestSelection(new) /\ UNCHANGED resolverVars
    \/ \E p \in BagToSet(prompts) : Confirm(p) /\ UNCHANGED resolverVars
    \/ \E p \in BagToSet(prompts) : Cancel(p) /\ UNCHANGED resolverVars
    \/ ViewerEdit /\ UNCHANGED resolverVars

OverlapSpec == GuardInit /\ [][OverlapNext]_vars

\* The save path: or-rules-save events for a saved ruleset of the list or for
\* one the server has just given an id, between selections.
SaveIds == Nodes \cup {Cardinality(Nodes) + 1}

SaveNext ==
    \/ \E success \in BOOLEAN, isNew \in BOOLEAN, id \in SaveIds :
          Save(success, isNew, id) /\ UNCHANGED resolverVars
    \/ \E i \in 1..Len(saves) : Refreshed(i) /\ UNCHANGED resolverVars
    \/ \E new \in NodeSeqs : SelectionChanged(new) /\ UNCHANGED resolverVars

SaveSpec == GuardInit /\ [][SaveNext]_vars

----
\* Properties of the resolver.

Called == side # "none"
CallSection == IF side = "action" THEN Val(Val(callConfig).descriptors).action
               ELSE Val(Val(callConfig).descriptors).when
CallAll == Val(Val(callConfig).descriptors).all
ResultNames == {result[i].assetDescriptor.name : i \in 1..Len(result)}
ConstraintList(o) == IF IsDef(o) THEN Val(o) ELSE <<>>

\* The RulesConfigAttribute the last call selected for attribute k of element i
\* of its result, None when it selected none.
SelectedOverride(c, sideName, res, heap, i, k) ==
    LET cd == getAssetDescriptorFromSection(res[i].assetDescriptor.name, c, sideName = "action")
    IN  IF ~res[i].own /\ IsDef(cd) /\ IsDef(Val(cd).attributeDescriptors)
        THEN ConfigAttributeDescriptor(heap[res[i].attributeDescriptors[k]].name,
                                       Val(cd), c, sideName = "action")
        ELSE None

\* C1: two successive calls of getAssetInfos with the same config and the same
\* side return deep-equal arrays.
C1_Idempotent ==
    [][(side # "none" /\ callConfig' = callConfig /\ side' = side)
          => returned' = returned]_vars

\* C2: no call changes the catalog: every type info, asset descriptor and
\* attribute descriptor of the catalog keeps the value it had before the calls.
C2_CatalogUnchanged ==
    assetInfos = InitAssetInfos /\ attrHeap = InitAttrHeap

\* C4: a call whose config is undefined or has no descriptors returns the
\* catalog's own type info for every descriptor, in catalog order, on either side.
C4_DefaultTransparency ==
    (Called /\ ~HasDescriptors(callConfig)) =>
        /\ Len(result) = Len(assetInfos)
        /\ \A i \in 1..Len(assetInfos) :
              /\ result[i].own
              /\ result[i].assetDescriptor = assetInfos[i].assetDescriptor
              /\ result[i].attributeDescriptors = assetInfos[i].attributeDescriptors
              /\ returned[i].attributeDescriptors =
                    [k \in 1..Len(assetInfos[i].attributeDescriptors) |->
                        attrHeap[assetInfos[i].attributeDescriptors[k]]]

C4_Witness ==
    /\ Called /\ ~HasDescriptors(callConfig) /\ config # None
    /\ Len(result) = 3 /\ UNKNOWNASSET \in ResultNames
    /\ attrHeap # InitAttrHeap

\* C5: when the all section and the side's section both give includeAssets the
\* allow-list is the all section's list; when one of them does, it is that list.
C5_IncludePrecedence ==
    (Called /\ HasDescriptors(callConfig)) =>
        LET sideHas == IsDef(CallSection) /\ IsDef(Val(CallSection).includeAssets)
            allHas == IsDef(CallAll) /\ IsDef(Val(CallAll).includeAssets)
        IN  /\ allHas => allowedAssetTypes = Val(Val(CallAll).includeAssets)
            /\ (sideHas /\ ~allHas) => allowedAssetTypes = Val(Val(CallSection).includeAssets)
            /\ ((sideHas \/ allHas) /\ Len(allowedAssetTypes) > 0)
                   => ResultNames \subseteq Range(allowedAssetTypes)

C5_Witness ==
    /\ side = "when" /\ HasDescriptors(callConfig)
    /\ IsDef(CallSection) /\ Val(CallSection).includeAssets = Some(<<"A">>)
    /\ IsDef(CallAll) /\ Val(CallAll).includeAssets = Some(<<"B", UNKNOWNASSET>>)
    /\ allowedAssetTypes = <<"B", UNKNOWNASSET>>
    /\ ResultNames = {"B", UNKNOWNASSET}

\* C6: no asset type named in the excludeAssets of the side's section or of the
\* all section is in the result, whatever the include lists name.
C6_ExclusionUnion ==
    (Called /\ HasDescriptors(callConfig)) =>
        /\ (IsDef(CallSection) /\ IsDef(Val(CallSection).excludeAssets))
              => ResultNames \cap Range(Val(Val(CallSection).excludeAssets)) = {}
        /\ (IsDef(CallAll) /\ IsDef(Val(CallAll).excludeAssets))
              => ResultNames \cap Range(Val(Val(CallAll).excludeAssets)) = {}

C6_Witness ==
    /\ side = "when" /\ HasDescriptors(callConfig)
    /\ IsDef(CallSection) /\ Val(CallSection).excludeAssets = Some(<<"A">>)
    /\ Val(CallSection).includeAssets = Some(<<"A">>)
    /\ IsDef(CallAll) /\ Val(CallAll).excludeAssets = Some(<<"B">>)
    /\ ResultNames = {UNKNOWNASSET}

\* C7: an attribute whose selected override has constraints C resolves to C
\* followed by the constraints N the catalog held for it when the call began;
\* the list is never shorter than N and an empty C leaves the list N.
C7_ConstraintPrepending ==
    [][\A i \in 1..Len(result') : \A k \in 1..Len(result'[i].attributeDescriptors) :
          LET r == result'[i].attributeDescriptors[k]
              sel == SelectedOverride(callConfig', side', result', attrHeap, i, k)
              N == ConstraintList(attrHeap[r].constraints)
              resolved == ConstraintList(returned'[i].attributeDescriptors[k].constraints)
          IN  (IsDef(sel) /\ IsDef(Val(sel).constraints)) =>
                  /\ resolved = Val(Val(sel).constraints) \o N
                  /\ Len(resolved) >= Len(N)
                  /\ (Val(Val(sel).constraints) = <<>> => resolved = N)]_vars

C7_Witness ==
    /\ Called
    /\ \E i \in 1..Len(result) : \E k \in 1..Len(result[i].attributeDescriptors) :
          LET sel == SelectedOverride(callConfig, side, result, attrHeap, i, k)
          IN  /\ IsDef(sel) /\ Val(sel).constraints = Some(<<"c4">>)
              /\ returned[i].attributeDescriptors[k].constraints = Some(<<"c4", "c1">>)

----
\* Properties of the guard.

\* The step closed a dialog opened for event p.
Answered(p) == BagIn(p, prompts) /\ prompts' = prompts (-) SetToBag({p})

\* The viewer holds a ruleset with the fields node n's ruleset has.
ViewerShows(n) == IsDef(viewerRuleset) /\ rulesets[Val(viewerRuleset)] = rulesets[n]

\* C3: the viewer's ruleset is replaced while the viewer is modified only by
\* the user's ok to a discard dialog, for a selection as for an added rule.
C3_NoSilentDiscard ==
    [][(modified /\ viewerRuleset' # viewerRuleset) => last'.op = "confirm"]_vars

\* C8: a selection request dispatched while the viewer is not modified opens no
\* dialog and keeps allow true, and selectedIds and the viewer's ruleset show
\* newNodes when the dispatch returns.
C8_UnmodifiedFastPath ==
    [][(last'.op = "request" /\ ~modified) =>
          /\ prompts' = prompts
          /\ last'.allow /\ ~last'.prompted
          /\ selectedIds' = Some([i \in 1..Len(last'.new) |-> Val(rulesets[last'.new[i]].id)])
          /\ IF Len(last'.new) = 1
             THEN /\ IsDef(viewerRuleset')
                  /\ rulesets'[Val(viewerRuleset')] = rulesets[last'.new[1]]
             ELSE viewerRuleset' = None]_vars

C8_Witness ==
    /\ last.op = "request" /\ last.allow /\ ~modified
    /\ last.new = <<2>> /\ selectedIds = Some(<<2>>) /\ ViewerShows(2)
    /\ prompts = EmptyBag

\* C9: the user's ok to the dialog of a request for the one node already
\* selected gives the viewer a fresh copy of that node's ruleset, an object of
\* its own with equal fields, and leaves selectedIds as it is.
C9_ReselectReloads ==
    [][\A p \in BagToSet(prompts) :
          (last'.op = "confirm" /\ Answered(p) /\ p.new = p.old /\ Len(p.new) = 1) =>
              /\ IsDef(viewerRuleset')
              /\ Val(viewerRuleset') # p.new[1]
              /\ viewerRuleset' # viewerRuleset
              /\ rulesets'[Val(viewerRuleset')] = rulesets[p.new[1]]
              /\ rulesets'[p.new[1]] = rulesets[p.new[1]]
              /\ selectedIds' = selectedIds]_vars

C9_Witness ==
    /\ last.op = "confirm" /\ last.reload /\ ~last.threw /\ modified
    /\ last.new = <<1>> /\ selectedIds = Some(<<1>>)
    /\ ViewerShows(1) /\ Val(viewerRuleset) \notin Nodes

\* C10: a vetoed request changes neither selectedIds nor the viewer's ruleset,
\* and neither does the user's cancel (or closing) of its dialog, which only
\* closes that dialog.
C10_CancelChangesNothing ==
    [][/\ (last'.op = "request" /\ modified) =>
              /\ ~last'.allow
              /\ UNCHANGED <<selectedIds, viewerRuleset, rulesets>>
       /\ last'.op = "cancel" =>
              /\ UNCHANGED <<selectedIds, viewerRuleset, rulesets, modified>>
              /\ \E p \in BagToSet(prompts) : Answered(p)]_vars

C10_Witness ==
    /\ last.op = "cancel" /\ modified
    /\ last.new = <<2>> /\ selectedIds = Some(<<1>>) /\ ViewerShows(1)
    /\ prompts = EmptyBag

\* C11: every _onRuleSave call starts a refresh of the list and writes nothing
\* before it is done; when it is done selectedIds is the saved ruleset's id
\* alone for a successful save of a new ruleset, and is left as it is for a
\* failed save or a ruleset that was not new.
C11_SaveSynchronization ==
    [][/\ last'.op = "save" =>
              /\ Len(saves') = Len(saves) + 1
              /\ UNCHANGED <<selectedIds, viewerRuleset, rulesets>>
       /\ last'.op = "refreshed" =>
              \E i \in 1..Len(saves) :
                  /\ saves' = Remove(saves, i)
                  /\ (saves[i].success /\ saves[i].isNew)
                        => selectedIds' = Some(<<saves[i].id>>)
                  /\ ~(saves[i].success /\ saves[i].isNew)
                        => selectedIds' = selectedIds]_vars

C11_Witness ==
    /\ last.op = "refreshed" /\ saves = <<>>
    /\ selectedIds = Some(<<Cardinality(Nodes) + 1>>)
    /\ IsDef(viewerRuleset)

\* The positions of the catalog a call keeps, read from its two lists.
Kept(i) ==
    /\ (Len(allowedAssetTypes) = 0
          \/ \E j \in 1..Len(allowedAssetTypes) :
                 allowedAssetTypes[j] = assetInfos[i].assetDescriptor.name)
    /\ \A j \in 1..Len(excludedAssetTypes) :
           excludedAssetTypes[j] # assetInfos[i].assetDescriptor.name

\* C12: with descriptors in the config, the result is the catalog's descriptors
\* that pass the allow-list (when it is not empty) and are not in the
\* exclude-list, each once and in catalog order.
C12_FilterCharacterisation ==
    (Called /\ HasDescriptors(callConfig)) =>
        \E pos \in [1..Len(result) -> 1..Len(assetInfos)] :
            /\ \A i \in 1..Len(result) :
                  result[i].assetDescriptor.name = assetInfos[pos[i]].assetDescriptor.name
            /\ \A i \in 1..Len(result) : \A j \in 1..Len(result) :
                  i < j => pos[i] < pos[j]
            /\ {pos[i] : i \in 1..Len(result)} = {i \in 1..Len(assetInfos) : Kept(i)}

C12_Witness ==
    /\ Called /\ HasDescriptors(callConfig)
    /\ allowedAssetTypes = <<"B", UNKNOWNASSET>> /\ excludedAssetTypes = <<"A">>
    /\ Len(result) = 2
    /\ result[1].assetDescriptor.name = "B" /\ result[2].assetDescriptor.name = UNKNOWNASSET

\* The RulesConfigAttribute found for attribute k of element i of the last
\* result by looking in the asset override's own dictionary, then the side's
\* section, then the all section; None when none has an entry.
FirstDefinedEntry(i, k) ==
    LET name == attrHeap[result[i].attributeDescriptors[k]].name
        cd == Val(getAssetDescriptorFromSection(result[i].assetDescriptor.name,
                                                callConfig, side = "action"))
        own == IF IsDef(cd.attributeDescriptors)
               THEN Val(cd.attributeDescriptors)[name] ELSE None
        fromSection == IF IsDef(CallSection) /\ IsDef(Val(CallSection).attributeDescriptors)
                       THEN Val(Val(CallSection).attributeDescriptors)[name] ELSE None
        fromAll == IF IsDef(CallAll) /\ IsDef(Val(CallAll).attributeDescriptors)
                   THEN Val(Val(CallAll).attributeDescriptors)[name] ELSE None
    IN  IF IsDef(own) THEN own ELSE IF IsDef(fromSection) THEN fromSection ELSE fromAll

\* C13: every attribute left on an asset type that has an override object,
\* with or without a dictionary of its own, carries the type, format and units
\* of the first entry defined for its name among the override's dictionary, the
\* side's section and the all section.
C13_AttributeLookupOrder ==
    (Called /\ HasDescriptors(callConfig)) =>
        \A i \in 1..Len(result) : \A k \in 1..Len(result[i].attributeDescriptors) :
            (~result[i].own /\ IsDef(FirstDefinedEntry(i, k))) =>
                LET e == Val(FirstDefinedEntry(i, k))
                    a == returned[i].attributeDescriptors[k]
                IN  /\ e.type # UNDEF => a.type = e.type
                    /\ e.format # UNDEF => a.format = e.format
                    /\ e.units # UNDEF => a.units = e.units

\* The entry of a section's assets dictionary under a key, None when the
\* section or its dictionary is missing.
AssetsAt(sec, key) ==
    IF IsDef(sec) /\ IsDef(Val(sec).assets) THEN Val(Val(sec).assets)[key] ELSE None

\* The first defined of side.assets[T], side.assets["*"], all.assets[T] and
\* all.assets["*"] for the last call, None when there is none.
FirstDefinedOverride(T) ==
    IF IsDef(AssetsAt(CallSection, T)) THEN AssetsAt(CallSection, T)
    ELSE IF IsDef(AssetsAt(CallSection, "*")) THEN AssetsAt(CallSection, "*")
    ELSE IF IsDef(AssetsAt(CallAll, T)) THEN AssetsAt(CallAll, T)
    ELSE AssetsAt(CallAll, "*")

\* The catalog's type info for an asset type name.
Native(T) ==
    assetInfos[CHOOSE j \in 1..Len(assetInfos) : assetInfos[j].assetDescriptor.name = T]

\* C14: the override used for a surviving asset type is the first defined of
\* the side's entry for the type, the side's wildcard, the all section's entry
\* and the all section's wildcard; with none defined the element returned is
\* the catalog's own type info, whatever sections are missing.
C14_AssetOverridePrecedence ==
    (Called /\ HasDescriptors(callConfig)) =>
        \A i \in 1..Len(result) :
            LET T == result[i].assetDescriptor.name
                o == FirstDefinedOverride(T)
            IN  IF IsDef(o)
                THEN /\ ~result[i].own
                     /\ result[i].assetDescriptor.icon =
                            IF Val(o).icon # UNDEF THEN Val(o).icon
                            ELSE Native(T).assetDescriptor.icon
                     /\ result[i].assetDescriptor.colour =
                            IF Val(o).color # UNDEF THEN Val(o).color
                            ELSE Native(T).assetDescriptor.colour
                ELSE /\ result[i].own
                     /\ result[i].assetDescriptor = Native(T).assetDescriptor
                     /\ result[i].attributeDescriptors = Native(T).attributeDescriptors

C14_Witness ==
    /\ side = "when" /\ HasDescriptors(callConfig)
    /\ AssetsAt(CallSection, "A") = None /\ AssetsAt(CallSection, "*") = Some(ColourCfg)
    /\ AssetsAt(CallAll, "A") = Some(IconCfg)
    /\ \E i \in 1..Len(result) :
          result[i].assetDescriptor = [name |-> "A", icon |-> "iA", colour |-> "k2"]
    /\ \E i \in 1..Len(result) :
          result[i].assetDescriptor = [name |-> "B", icon |-> "i2", colour |-> "kB"]

\* C15: on an asset type with an override, an attribute stays iff its name
\* matches an include pattern (when includeAttributes is given) and no exclude
\* pattern (when excludeAttributes is given); the attributes left keep their
\* order, and an empty includeAttributes leaves none.
C15_AttributeFiltering ==
    (Called /\ HasDescriptors(callConfig)) =>
        \A i \in 1..Len(result) :
            LET T == result[i].assetDescriptor.name
                o == FirstDefinedOverride(T)
                included(r) ==
                    IsDef(Val(o).includeAttributes) =>
                        \E n \in 1..Len(Val(Val(o).includeAttributes)) :
                            stringMatch(Val(Val(o).includeAttributes)[n], attrHeap[r].name)
                excluded(r) ==
                    /\ IsDef(Val(o).excludeAttributes)
                    /\ \E n \in 1..Len(Val(Val(o).excludeAttributes)) :
                            stringMatch(Val(Val(o).excludeAttributes)[n], attrHeap[r].name)
            IN  IsDef(o) =>
                    result[i].attributeDescriptors =
                        SelectSeq(Native(T).attributeDescriptors,
                                  LAMBDA r : included(r) /\ ~excluded(r))

C15_Witness ==
    /\ Called /\ HasDescriptors(callConfig)
    /\ \E i \in 1..Len(result) :
          LET o == FirstDefinedOverride(result[i].assetDescriptor.name)
          IN  /\ IsDef(o) /\ Val(o).includeAttributes = Some(<<>>)
              /\ Len(Native(result[i].assetDescriptor.name).attributeDescriptors) = 2
              /\ result[i].attributeDescriptors = <<>>

\* The ids of the nodes of an array, as the rulesets hold them before a step.
IdsOf(nodes) == [i \in 1..Len(nodes) |-> Val(rulesets[nodes[i]].id)]

\* After a step the viewer holds what a selection of nodes asks for: the one
\* node's ruleset, or none for no node or several.
ViewerFollows(nodes) ==
    IF Len(nodes) = 1
    THEN IsDef(viewerRuleset') /\ rulesets'[Val(viewerRuleset')] = rulesets[nodes[1]]
    ELSE viewerRuleset' = None

\* C16: after _onRuleSelectionChanged, and after the user's ok to a request
\* whose newNodes differ from its oldNodes, selectedIds is the ids of newNodes
\* in their order and the viewer holds the one node's ruleset, or none.
C16_SelectionSynchronization ==
    [][/\ last'.op = "selection" =>
              selectedIds' = Some(IdsOf(last'.new)) /\ ViewerFollows(last'.new)
       /\ \A p \in BagToSet(prompts) :
              (last'.op = "confirm" /\ Answered(p) /\ ~objectsEqual(p.new, p.old)) =>
                  selectedIds' = Some(IdsOf(p.new)) /\ ViewerFollows(p.new)]_vars

C16_Witness ==
    /\ last.op = "confirm" /\ ~last.reload /\ modified
    /\ last.new = <<1, 2>> /\ selectedIds = Some(<<1, 2>>) /\ viewerRuleset = None

\* C17: a request leaves its handler with allow false iff the viewer was
\* modified at the dispatch, a dialog is opened iff allow was set to false, and
\* the vetoing handler writes neither selectedIds nor the viewer's ruleset.
C17_VetoProtocol ==
    [][last'.op = "request" =>
          /\ last'.allow <=> ~modified
          /\ last'.prompted <=> ~last'.allow
          /\ IF last'.allow THEN prompts' = prompts
             ELSE \E old \in NodeSeqs :
                      prompts' = prompts (+) SetToBag({[old |-> old, new |-> last'.new]})
          /\ ~last'.allow => UNCHANGED <<selectedIds, viewerRuleset, rulesets, modified>>]_vars

C17_Witness ==
    /\ last.op = "request" /\ ~last.allow /\ last.prompted /\ modified
    /\ last.new = <<2>> /\ selectedIds = Some(<<1>>) /\ ViewerShows(1)
    /\ prompts = SetToBag({[old |-> <<1>>, new |-> <<2>>]})

\* C18: _onRuleAdd gives the viewer the new ruleset with the viewer modified
\* or not, opens no dialog and leaves selectedIds as it is.
C18_AddBypassesGuard ==
    [][last'.op = "add" =>
          /\ IsDef(viewerRuleset')
          /\ rulesets'[Val(viewerRuleset')] = [id |-> None, rules |-> "new"]
          /\ prompts' = prompts
          /\ selectedIds' = selectedIds
          /\ modified' = modified]_vars

C18_Witness ==
    /\ last.op = "add" /\ modified
    /\ IsDef(viewerRuleset) /\ rulesets[Val(viewerRuleset)].rules = "new"
    /\ selectedIds = Some(<<1>>) /\ prompts = EmptyBag

\* C19: a request made while another dialog is open and the viewer is still
\* modified is vetoed and gets a dialog of its own, and the ok to a dialog for
\* one node applies that dialog's own newNodes: selectedIds and the viewer's
\* ruleset are then those of the dialog answered last.
C19_OverlappingRequests ==
    [][/\ (last'.op = "request" /\ modified) =>
              /\ ~last'.allow
              /\ BagCardinality(prompts') = BagCardinality(prompts) + 1
              /\ \E old \in NodeSeqs : CopiesIn([old |-> old, new |-> last'.new], prompts')
                        = CopiesIn([old |-> old, new |-> last'.new], prompts) + 1
       /\ \A p \in BagToSet(prompts) :
              (last'.op = "confirm" /\ Answered(p) /\ Len(p.new) = 1) =>
                  selectedIds' = Some(IdsOf(p.new)) /\ ViewerFollows(p.new)]_vars

\* C20: with descriptors in the config the unknown asset type is in the result
\* only when the includeAssets list in effect, the all section's or else the
\* side's, names it.
C20_SentinelExclusion ==
    (Called /\ HasDescriptors(callConfig) /\ UNKNOWNASSET \in ResultNames) =>
        LET allHas == IsDef(CallAll) /\ IsDef(Val(CallAll).includeAssets)
            sideHas == IsDef(CallSection) /\ IsDef(Val(CallSection).includeAssets)
        IN  \/ allHas /\ UNKNOWNASSET \in Range(Val(Val(CallAll).includeAssets))
            \/ ~allHas /\ sideHas
                  /\ UNKNOWNASSET \in Range(Val(Val(CallSection).includeAssets))

\* C21: after the user's ok to a vetoed request the viewer holds a ruleset iff
\* newNodes has exactly one node, also when newNodes equals oldNodes and has no
\* node or several, and the callback reads no ruleset of a node that is not there.
C21_ViewerSelectionConsistency ==
    [][\A p \in BagToSet(prompts) :
          (last'.op = "confirm" /\ Answered(p)) =>
              /\ ~last'.threw
              /\ IsDef(viewerRuleset') <=> Len(p.new) = 1]_vars

\* C22: the viewer never holds the ruleset object of a list node, only a copy
\* of it, so that an edit in the viewer leaves every list node's ruleset as it was.
C22_NoAliasing ==
    /\ IsDef(viewerRuleset) => Val(viewerRuleset) \notin Nodes
    /\ \A n \in Nodes : rulesets[n] = InitRulesets[n]

\* C23: _onRuleSave writes selectedIds only once the refresh is done; a
\* selection made while the refresh was running is then overwritten by the id
\* of a successfully saved new ruleset, and the viewer's ruleset stays as that
\* selection set it.
C23_SaveSelectionInterleaving ==
    [][/\ last'.op = "save" => selectedIds' = selectedIds
       /\ last'.op = "refreshed" =>
              \E i \in 1..Len(saves) :
                  /\ saves' = Remove(saves, i)
                  /\ (saves[i].success /\ saves[i].isNew /\ selectedIds # saves[i].selected)
                        => /\ selectedIds' = Some(<<saves[i].id>>)
                           /\ last'.overwrote
                  /\ UNCHANGED <<viewerRuleset, rulesets>>]_vars

C23_Witness ==
    /\ last.op = "refreshed" /\ last.overwrote
    /\ selectedIds = Some(<<Cardinality(Nodes) + 1>>)
    /\ ViewerShows(2)

\* A config with the section of the side that is not asked for replaced.
WithOtherSide(c, useActionConfig, o) ==
    Some([descriptors |->
            Some(IF useActionConfig
                 THEN [Val(Val(c).descriptors) EXCEPT !.when = o]
                 ELSE [Val(Val(c).descriptors) EXCEPT !.action = o])])

\* The sections put in the place of the other side's section.
IsolationSections == OtherSideSections \cup MixedSections

\* C24: a call for one side gives the result, and leaves the catalog, that
\* the same call gives on the same catalog with any other section in the
\* place of the other side's section.
C24_SideIsolation ==
    [][HasDescriptors(callConfig') =>
          \A o \in IsolationSections :
              LET u == (side' = "action")
                  c2 == WithOtherSide(callConfig', u, o)
                  heap2 == HeapAfter(c2, u, attrHeap)
              IN  /\ DeepValue(getAssetInfos(c2, u, attrHeap), heap2) = returned'
                  /\ getAssetInfos(c2, u, attrHeap) = result'
                  /\ heap2 = attrHeap']_vars

C24_Witness ==
    /\ side = "when" /\ HasDescriptors(callConfig)
    /\ LET action == Val(Val(callConfig).descriptors).action
       IN  /\ IsDef(action) /\ Val(action).excludeAssets = Some(<<"A">>)
           /\ AssetsAt(action, "*") = Some(ColourCfg)
    /\ \E i \in 1..Len(result) :
          /\ result[i].own
          /\ returned[i].assetDescriptor = [name |-> "A", icon |-> "iA", colour |-> "kA"]
          /\ returned[i].attributeDescriptors[1].constraints = Some(<<"c1">>)

====
